---- MODULE Spec2Model ----
(***************************************************************************)
(* Model of searchpkgs (src/src/main.rs): the concurrent manifest builder. *)
(*                                                                         *)
(* One scheduler task per engine (generate_hashes_for_engine) enumerates   *)
(* the (arch, os, version) tuples, skips the keys of the manifest snapshot,*)
(* memoizes one shared fetch per URL and keeps at most `concurrency` units *)
(* of work in its JoinSet.  Units send their result on an unbounded        *)
(* channel to the store task (update_manifest), which inserts the entry if *)
(* absent and rewrites manifest.json.  main joins the engine tasks, sends  *)
(* the stop sentinel, awaits the store and flushes once more.  The ctrl-c  *)
(* handler sends the sentinel and aborts the engine tasks.                 *)
(***************************************************************************)
EXTENDS Naturals, Sequences, FiniteSets, TLC

(***************************************************************************)
(* Bounds of the model.                                                    *)
(***************************************************************************)
\* Number of chunks in the body of every artifact.
BodyChunks == 1
\* Number of interrupts (ctrl-c) delivered in one run.
MaxInterrupts == 1
\* Number of messages the environment of SpecStore sends to the store.
MaxSends == 3
\* Length of the raw tag and release names given to extract_version_string.
MaxRawLen == 6
\* Largest major number, and largest minor number, of the versions given to get_url.
MaxMajor == 8
MaxMinor == 1

(***************************************************************************)
(* Program constants and enumerations.                                     *)
(***************************************************************************)
\* main.rs:206  let concurrency = 4;
concurrency == 4

\* main.rs:299-303  enum Engine
Engine == {"Elasticsearch", "OpenSearch", "Quickwit"}

\* main.rs:307-310  enum Arch, in the order of Arch::iter()
ArchIter == <<"X86_64", "Aarch64">>

\* main.rs:329-332  enum OperatingSystem, in the order of OperatingSystem::iter()
OperatingSystemIter == <<"Linux", "Darwin">>

Range(s) == {s[i] : i \in DOMAIN s}

Arch == Range(ArchIter)

OperatingSystem == Range(OperatingSystemIter)

\* A semver Version is <<major, minor, patch>>.
VersionMajor(version) == version[1]

(***************************************************************************)
(* URL derivation (main.rs:312-383).  A URL is the sequence of the pieces  *)
(* the format! string concatenates, the literal text cut at the same       *)
(* places in every scheme so that equal strings are equal sequences.       *)
(***************************************************************************)
\* main.rs:313-323  Arch::format
ArchFormat(arch, engine) ==
    CASE arch = "X86_64"  /\ engine = "Elasticsearch" -> "x86_64"
      [] arch = "X86_64"  /\ engine = "OpenSearch"    -> "x64"
      [] arch = "X86_64"  /\ engine = "Quickwit"      -> "x86_64"
      [] arch = "Aarch64" /\ engine = "Elasticsearch" -> "aarch64"
      [] arch = "Aarch64" /\ engine = "OpenSearch"    -> "arm64"
      [] arch = "Aarch64" /\ engine = "Quickwit"      -> "aarch64"

\* main.rs:334-343  OperatingSystem::format
OperatingSystemFormat(system, engine) ==
    CASE system = "Linux"  /\ engine = "Elasticsearch" -> "linux"
      [] system = "Linux"  /\ engine = "OpenSearch"    -> "linux"
      [] system = "Linux"  /\ engine = "Quickwit"      -> "unknown-linux-gnu"
      [] system = "Darwin" /\ engine = "Elasticsearch" -> "darwin"
      [] system = "Darwin" /\ engine = "OpenSearch"    -> "darwin"
      [] system = "Darwin" /\ engine = "Quickwit"      -> "apple-darwin"

\* main.rs:367  system.to_string().to_lowercase()
ToLowercase(system) == IF system = "Linux" THEN "linux" ELSE "darwin"

\* main.rs:360-363
get_opensearch_url_per_system(version, arch, system) ==
    <<"https://artifacts.opensearch.org/releases/core/opensearch/", version,
      "/opensearch-min-", version, "-", ToLowercase(system), "-",
      ArchFormat(arch, "OpenSearch"), ".tar.gz">>

get_opensearch_url(version, arch, system) ==
    <<"https://artifacts.opensearch.org/releases/core/opensearch/", version,
      "/opensearch-min-", version, "-linux-", ArchFormat(arch, "OpenSearch"), ".tar.gz">>

\* main.rs:365-377
get_elasticsearch_url(version, arch, system) ==
    LET a == ArchFormat(arch, "Elasticsearch")
        s == ToLowercase(system)
        m == VersionMajor(version)
    IN  CASE m \in {0, 1} ->
               <<"https://download.elastic.co/elasticsearch/elasticsearch/elasticsearch-",
                 version, ".tar.gz">>
          [] m \in 2..4 ->
               <<"https://download.elastic.co/elasticsearch/release/org/elasticsearch/distribution/tar/elasticsearch/",
                 version, "/elasticsearch-", version, ".tar.gz">>
          [] m \in {5, 6} ->
               <<"https://artifacts.elastic.co/downloads/elasticsearch/elasticsearch-",
                 version, ".tar.gz">>
          [] m = 7 ->
               <<"https://artifacts.elastic.co/downloads/elasticsearch/elasticsearch-",
                 version, "-", s, "-", "x86_64", ".tar.gz">>
          [] OTHER ->
               <<"https://artifacts.elastic.co/downloads/elasticsearch/elasticsearch-",
                 version, "-", s, "-", a, ".tar.gz">>

\* main.rs:379-383
get_quickwit_url(version, arch, system) ==
    <<"https://github.com/quickwit-oss/quickwit/releases/download/v", version,
      "/quickwit-v", version, "-", ArchFormat(arch, "Quickwit"), "-",
      OperatingSystemFormat(system, "Quickwit"), ".tar.gz">>

\* main.rs:352-358
get_url(engine, version, arch, system) ==
    CASE engine = "Elasticsearch" -> get_elasticsearch_url(version, arch, system)
      [] engine = "OpenSearch"    -> get_opensearch_url(version, arch, system)
      [] engine = "Quickwit"      -> get_quickwit_url(version, arch, system)

\* A ManifestKey is <<engine, version, arch, os>>.
KeyUrl(key) == get_url(key[1], key[2], key[3], key[4])

(***************************************************************************)
(* Fetching and hashing (main.rs:386-405).  The transport's answer to one  *)
(* GET is a response: the request fails (send = "err"), or the status is   *)
(* not a success (status = "err"), or the body arrives as `chunks` chunks  *)
(* and then ends (last = "end") or breaks with a network error             *)
(* (last = "err").                                                         *)
(***************************************************************************)
Responses ==
    {[send |-> "err", status |-> "ok", chunks |-> 0, last |-> "err"],
     [send |-> "ok", status |-> "err", chunks |-> 0, last |-> "end"],
     [send |-> "ok", status |-> "ok", chunks |-> BodyChunks, last |-> "end"]}
    \cup {[send |-> "ok", status |-> "ok", chunks |-> n, last |-> "err"] :
             n \in 0..(BodyChunks - 1)}

\* The response is the complete artifact, received without any failure.
ResponseComplete(resp) ==
    resp.send = "ok" /\ resp.status = "ok" /\ resp.last = "end"

\* ring::digest of the first n chunks of the body url serves in this run, in
\* nix base32.
Digest(url, n) == [of |-> url, chunks |-> n, served |-> "this-run"]

\* The hash an earlier run recorded for url, of the artifact served then.
PriorHash(url) == [of |-> url, chunks |-> BodyChunks, served |-> "prior-run"]

\* The hash of the artifact behind url.
TrueHash(url) == Digest(url, BodyChunks)

\* main.rs:396-399  while let Ok(Some(chunk)) = resp.chunk().await { update }
\* The loop ends at the first answer that is not Ok(Some(chunk)): the end of
\* the body and a network error alike.
RECURSIVE HashChunks(_, _)
HashChunks(resp, consumed) ==
    IF consumed < resp.chunks
    THEN HashChunks(resp, consumed + 1)
    ELSE consumed

\* main.rs:386-405  get_artifact_hash
get_artifact_hash(url, resp) ==
    IF resp.send = "err" THEN [ok |-> FALSE, err |-> "GetArtifact"]
    ELSE IF resp.status = "err" THEN [ok |-> FALSE, err |-> "GetArtifactStatus"]
    ELSE [ok |-> TRUE, hash |-> Digest(url, HashChunks(resp, 0))]

(***************************************************************************)
(* The manifest (main.rs:293): a function from ManifestKeys to Details.    *)
(***************************************************************************)
Details(sha256, url) == [sha256 |-> sha256, url |-> url]

EmptyManifest == [k \in {} |-> Details(Digest(<<>>, 0), <<>>)]

\* main.rs:176-184  manifest.entry(..)...entry(system).or_insert(details)
OrInsertOverwrite(m, key, details) ==
    [k \in DOMAIN m \cup {key} |-> IF k = key THEN details ELSE m[k]]

OrInsert(m, key, details) ==
    IF key \in DOMAIN m THEN m
    ELSE [k \in DOMAIN m \cup {key} |-> IF k = key THEN details ELSE m[k]]

\* main.rs:212-217  manifest.get(&engine).and_then(..version..arch..system).is_some()
ManifestHas(m, key) == key \in DOMAIN m

(***************************************************************************)
(* The file ./manifest.json: absent, truncated by File::create and not yet *)
(* written, or the serialization of a manifest.                            *)
(***************************************************************************)
FileAbsent == [kind |-> "absent"]

FileTruncated == [kind |-> "truncated"]

\* main.rs:194  serde_json::to_writer_pretty(writer, &manifest)
Serialize(m) == [kind |-> "json", entries |-> m]

\* main.rs:143-153  initialize_manifest: what a run started on this file loads
\* (a file that does not parse is fatal: no manifest is loaded).
initialize_manifest(file) ==
    CASE file.kind = "absent" -> [ok |-> TRUE, manifest |-> EmptyManifest]
      [] file.kind = "json" -> [ok |-> TRUE, manifest |-> file.entries]
      [] OTHER -> [ok |-> FALSE]

(***************************************************************************)
(* Version extraction (main.rs:482-492).  A string is the sequence of its  *)
(* characters.  The regex is                                               *)
(*   ^.*(?<version>[0-9]+\.[0-9]+\.[0-9]+(-[a-z0-9]+)?).*$                 *)
(* matched with the preferences of its greedy operators: the leading .*    *)
(* takes the longest prefix after which the rest still matches.  (No       *)
(* string here holds a line break, which `.` would not match.)             *)
(***************************************************************************)
Digits == {"0", "1", "2", "3", "4", "5", "6", "7", "8", "9"}

LowerLetters ==
    {"a", "b", "c", "d", "e", "f", "g", "h", "i", "j", "k", "l", "m",
     "n", "o", "p", "q", "r", "s", "t", "u", "v", "w", "x", "y", "z"}

None == [some |-> FALSE]

Some(x) == [some |-> TRUE, value |-> x]

\* from occurs in str at position i
OccursAt(str, from, i) ==
    /\ i + Len(from) - 1 <= Len(str)
    /\ \A k \in 1..Len(from) : str[i + k - 1] = from[k]

\* str::replace(from, to): every non-overlapping occurrence, from the left
RECURSIVE ReplaceFrom(_, _, _, _)
ReplaceFrom(str, i, from, to) ==
    IF i > Len(str) THEN <<>>
    ELSE IF OccursAt(str, from, i)
         THEN to \o ReplaceFrom(str, i + Len(from), from, to)
         ELSE <<str[i]>> \o ReplaceFrom(str, i + 1, from, to)

Replace(str, from, to) == ReplaceFrom(str, 1, from, to)

\* main.rs:487  str.replace(".Beta", "-beta").replace(".RC", "-rc")
NormalizePrerelease(str) ==
    Replace(Replace(str, <<".", "B", "e", "t", "a">>, <<"-", "b", "e", "t", "a">>),
            <<".", "R", "C">>, <<"-", "r", "c">>)

\* The length of the longest run of characters of class at position i: what a
\* greedy class+ takes first.
RECURSIVE RunLen(_, _, _)
RunLen(str, i, class) ==
    IF i <= Len(str) /\ str[i] \in class THEN 1 + RunLen(str, i + 1, class) ELSE 0

\* [0-9]+\.[0-9]+\.[0-9]+(-[a-z0-9]+)? matched at position i: the position
\* after the match, or 0 when there is no match.  A shorter run of digits
\* never helps: the character after it is a digit, not the dot.
VersionEnd(str, i) ==
    LET major == RunLen(str, i, Digits)
        dot1 == i + major
        minor == RunLen(str, dot1 + 1, Digits)
        dot2 == dot1 + 1 + minor
        patch == RunLen(str, dot2 + 1, Digits)
        dash == dot2 + 1 + patch
        pre == RunLen(str, dash + 1, Digits \cup LowerLetters)
    IN  IF major = 0 \/ dot1 > Len(str) \/ str[dot1] # "." THEN 0
        ELSE IF minor = 0 \/ dot2 > Len(str) \/ str[dot2] # "." THEN 0
        ELSE IF patch = 0 THEN 0
        ELSE IF dash <= Len(str) /\ str[dash] = "-" /\ pre > 0 THEN dash + 1 + pre
        ELSE dash

\* ^.* is greedy: the version group is taken after the longest prefix (of at
\* most n characters) after which the version pattern matches.
RECURSIVE CaptureAfterLongestPrefix(_, _)
CaptureAfterLongestPrefix(str, n) ==
    IF n < 0 THEN None
    ELSE IF VersionEnd(str, n + 1) # 0
         THEN Some(SubSeq(str, n + 1, VersionEnd(str, n + 1) - 1))
         ELSE CaptureAfterLongestPrefix(str, n - 1)

\* main.rs:482-492
extract_version_string(str) ==
    LET normalized == NormalizePrerelease(str)
    IN  CaptureAfterLongestPrefix(normalized, Len(normalized))

(***************************************************************************)
(* State.                                                                  *)
(***************************************************************************)
VARIABLES
    engine_versions, \* main.rs:80   EngineVersions: engine -> Vec<Version>
    snapshot,        \* main.rs:77   the manifest loaded at startup (cloned to every scheduler)
    transport,       \* what the artifact servers may answer to the GET of each URL
    manifest,        \* main.rs:169  the store task's manifest
    disk,            \* ./manifest.json
    lastFlushed,     \* what ./manifest.json held before the flush under way began
    applied,         \* the updates update_manifest has received so far
    chan,            \* main.rs:83   messages sent on manifest_tx and not yet received
    closed,          \* manifest_rx has been dropped (manifest_tx.is_closed())
    storepc,         \* position of update_manifest
    mainpc,          \* position of main
    joinset,         \* main.rs:84   engine tasks still in main's JoinSet
    epc,             \* position of each generate_hashes_for_engine
    eidx,            \* number of tuples each scheduler has gone past
    units,           \* main.rs:205  the units of work each scheduler spawned
    memo,            \* main.rs:207  url_hash_memo of each scheduler
    eabort,          \* abort requested for the engine task (JoinSet::abort_all)
    handlerpc,       \* position of the ctrl-c handler thread
    interrupts,      \* number of interrupts delivered
    caught,          \* the fetches that were in flight when the handler began, until it has aborted
    envsent,         \* number of messages sent by the store's environment (SpecStore)
    raw_name,        \* main.rs:442, 474  the tag or release name given to extract_version_string
    version_string,  \* main.rs:482  what extract_version_string returned
    url_keys,        \* main.rs:352  two keys given to get_url
    derived_urls,    \* main.rs:352  what get_url returned for each
    callpc           \* position of the caller of the function under study

vars ==
    <<engine_versions, snapshot, transport, manifest, disk, lastFlushed, applied, chan, closed, storepc,
      mainpc, joinset, epc, eidx, units, memo, eabort, handlerpc, interrupts, caught, envsent,
      raw_name, version_string, url_keys, derived_urls, callpc>>

\* The arguments and results of the functions studied on their own.
callVars == <<raw_name, version_string, url_keys, derived_urls, callpc>>

\* What no step of a run changes.
inputVars == <<engine_versions, snapshot, transport, callVars>>

storeVars == <<manifest, disk, lastFlushed, applied, storepc>>

schedVars == <<epc, eidx, units, memo>>

mainVars == <<mainpc, joinset>>

handlerVars == <<handlerpc, interrupts, eabort, caught>>

(***************************************************************************)
(* Messages on the channel: Option<ManifestTuple> (main.rs:294).           *)
(***************************************************************************)
SomeMsg(key, url, sha256) == [some |-> TRUE, key |-> key, url |-> url, sha256 |-> sha256]

NoneMsg == [some |-> FALSE]

\* The process is running: main has neither returned nor panicked.
Alive == mainpc \notin {"done", "panicked"}

Engines == DOMAIN engine_versions

(***************************************************************************)
(* Enumeration of one engine's tuples (main.rs:210):                       *)
(* iproduct!(Arch::iter(), OperatingSystem::iter(), versions) steps its    *)
(* last factor fastest.                                                    *)
(***************************************************************************)
NumTuples(versions) == Len(ArchIter) * Len(OperatingSystemIter) * Len(versions)

\* The i-th tuple (from 0), as the ManifestKey <<engine, version, arch, os>>.
TupleKeyVersionOuter(engine, versions, i) ==
    LET n == Len(ArchIter) * Len(OperatingSystemIter)
        version == versions[(i \div n) + 1]
        arch == ArchIter[((i % n) \div Len(OperatingSystemIter)) + 1]
        system == OperatingSystemIter[(i % Len(OperatingSystemIter)) + 1]
    IN  <<engine, version, arch, system>>

\* The os stepped with every tuple: keys come again, others never come.
TupleKeyRepeating(engine, versions, i) ==
    LET n == Len(versions)
        arch == ArchIter[(i \div (Len(OperatingSystemIter) * n)) + 1]
        system == OperatingSystemIter[(i % Len(OperatingSystemIter)) + 1]
        version == versions[(i % n) + 1]
    IN  <<engine, version, arch, system>>

TupleKey(engine, versions, i) ==
    LET n == Len(versions)
        arch == ArchIter[(i \div (Len(OperatingSystemIter) * n)) + 1]
        system == OperatingSystemIter[((i \div n) % Len(OperatingSystemIter)) + 1]
        version == versions[(i % n) + 1]
    IN  <<engine, version, arch, system>>

KeyAt(e, i) == TupleKey(e, engine_versions[e], i)

\* The keys of the cross product of engine e.
CrossProduct(e) == {KeyAt(e, i) : i \in 0..(NumTuples(engine_versions[e]) - 1)}

\* JoinSet::len of scheduler e: units spawned and not yet joined.
SetLen(e) == Cardinality({i \in DOMAIN units[e] : ~units[e][i].joined})

\* Units of e that have finished and wait to be joined.
Joinable(e) ==
    {i \in DOMAIN units[e] : ~units[e][i].joined /\ units[e][i].st \in {"sent", "senderr", "panicked"}}

(***************************************************************************)
(* The memo of shared fetches (main.rs:207, 227-234).  A cell is the       *)
(* Shared future of one URL: created lazily ("lazy"), polled for the first *)
(* time by a unit of work ("inflight"), completed ("done") or dropped with *)
(* the scheduler ("dropped").  starts counts the network fetches started.  *)
(***************************************************************************)
NoResponse == [send |-> "none", status |-> "none", chunks |-> 0, last |-> "none"]

NoResult == [ok |-> FALSE, err |-> "pending"]

NewCell == [st |-> "lazy", starts |-> 0, resp |-> NoResponse, res |-> NoResult]

\* main.rs:227-234  url_hash_memo.entry(url).or_insert_with(|| get_artifact_hash(..).shared())
MemoEntryAlwaysInsert(m, url) ==
    [u \in DOMAIN m \cup {url} |->
        IF u = url
        THEN [NewCell EXCEPT !.starts = IF url \in DOMAIN m THEN m[url].starts ELSE 0]
        ELSE m[u]]

MemoEntry(m, url) ==
    IF url \in DOMAIN m THEN m
    ELSE [u \in DOMAIN m \cup {url} |-> IF u = url THEN NewCell ELSE m[u]]

EmptyMemo == [u \in {} |-> NewCell]

\* A unit of work (main.rs:243-249): the spawned task of tuple i.  late
\* records that the shared fetch it awaits had completed when it was spawned.
NewUnit(url, late) ==
    [st |-> "running", url |-> url, got |-> NoResult, joined |-> FALSE, late |-> late]

EmptyUnits == [i \in {} |-> NewUnit(<<>>, FALSE)]

\* main.rs:243  set.spawn(async move { .. }) for tuple i, which moves in the
\* clone of the Shared future of url held by memo m
SpawnUnit(us, i, url, m) ==
    [j \in DOMAIN us \cup {i} |-> IF j = i THEN NewUnit(url, m[url].st = "done") ELSE us[j]]

\* Dropping the JoinSet aborts the units still running; dropping the memo
\* drops the fetches that have not completed.
DropUnits(us) ==
    [i \in DOMAIN us |-> IF us[i].st = "running" THEN [us[i] EXCEPT !.st = "aborted"] ELSE us[i]]

DropMemo(m) ==
    [u \in DOMAIN m |-> IF m[u].st \in {"lazy", "inflight"} THEN [m[u] EXCEPT !.st = "dropped"] ELSE m[u]]

\* generate_hashes_for_engine ends (returns, panics or is cancelled): its
\* locals `set` and `url_hash_memo` are dropped.
EndScheduler(e, how) ==
    /\ epc' = [epc EXCEPT ![e] = how]
    /\ units' = [units EXCEPT ![e] = DropUnits(units[e])]
    /\ memo' = [memo EXCEPT ![e] = DropMemo(memo[e])]
    /\ UNCHANGED eidx

\* main.rs:236  while set.len() >= concurrency
SlotNeededNoBound(e) == FALSE

SlotNeeded(e) == SetLen(e) >= concurrency

\* main.rs:212-221  the key is in the snapshot: skip
SkipKeyNever(e) == FALSE

SkipKey(e) == ManifestHas(snapshot, KeyAt(e, eidx[e]))

(***************************************************************************)
(* generate_hashes_for_engine (main.rs:198-253).                           *)
(***************************************************************************)
\* main.rs:211  the for loop has gone through every tuple
SchedEnumDone(e) ==
    /\ Alive /\ epc[e] = "iter"
    /\ eidx[e] = NumTuples(engine_versions[e])
    /\ epc' = [epc EXCEPT ![e] = "drain"]
    /\ UNCHANGED <<eidx, units, memo>>
    /\ UNCHANGED <<inputVars, storeVars, chan, closed, mainVars, handlerVars, envsent>>

\* main.rs:212-221  Skipping ...; continue
SchedSkip(e) ==
    /\ Alive /\ epc[e] = "iter"
    /\ eidx[e] < NumTuples(engine_versions[e])
    /\ SkipKey(e)
    /\ eidx' = [eidx EXCEPT ![e] = @ + 1]
    /\ UNCHANGED <<epc, units, memo>>
    /\ UNCHANGED <<inputVars, storeVars, chan, closed, mainVars, handlerVars, envsent>>

\* main.rs:222-224  if manifest_tx.is_closed() { return }
SchedClosedReturn(e) ==
    /\ Alive /\ epc[e] = "iter"
    /\ eidx[e] < NumTuples(engine_versions[e])
    /\ ~SkipKey(e)
    /\ closed
    /\ EndScheduler(e, "returned")
    /\ UNCHANGED <<inputVars, storeVars, chan, closed, mainVars, handlerVars, envsent>>

\* main.rs:225-249  a slot is free: memoize the URL's fetch and spawn the unit
SchedIssue(e) ==
    /\ Alive /\ epc[e] = "iter"
    /\ eidx[e] < NumTuples(engine_versions[e])
    /\ ~SkipKey(e)
    /\ ~closed
    /\ LET url == KeyUrl(KeyAt(e, eidx[e]))
       IN  /\ memo' = [memo EXCEPT ![e] = MemoEntry(memo[e], url)]
           /\ IF SlotNeeded(e)
              THEN /\ epc' = [epc EXCEPT ![e] = "slot"]
                   /\ UNCHANGED <<eidx, units>>
              ELSE /\ units' = [units EXCEPT ![e] =
                                  SpawnUnit(units[e], eidx[e], url, MemoEntry(memo[e], url))]
                   /\ eidx' = [eidx EXCEPT ![e] = @ + 1]
                   /\ UNCHANGED epc
    /\ UNCHANGED <<inputVars, storeVars, chan, closed, mainVars, handlerVars, envsent>>

\* main.rs:236-249  set.join_next().await.unwrap().unwrap() while the set is
\* full: a unit that returned is joined (its Err is only logged), and when the
\* set is no longer full the unit of the current tuple is spawned.
SchedJoinSlot(e) ==
    /\ Alive /\ epc[e] = "slot"
    /\ \E i \in Joinable(e) :
          /\ units[e][i].st # "panicked"
          /\ LET joined == [units[e] EXCEPT ![i].joined = TRUE]
                 len == Cardinality({j \in DOMAIN joined : ~joined[j].joined})
             IN  IF len >= concurrency
                 THEN /\ units' = [units EXCEPT ![e] = joined]
                      /\ UNCHANGED <<epc, eidx>>
                 ELSE /\ units' = [units EXCEPT ![e] =
                                     SpawnUnit(joined, eidx[e], KeyUrl(KeyAt(e, eidx[e])),
                                               memo[e])]
                      /\ eidx' = [eidx EXCEPT ![e] = @ + 1]
                      /\ epc' = [epc EXCEPT ![e] = "iter"]
    /\ UNCHANGED memo
    /\ UNCHANGED <<inputVars, storeVars, chan, closed, mainVars, handlerVars, envsent>>

\* main.rs:237  the joined unit panicked: the second unwrap() panics in turn
SchedJoinSlotPanic(e) ==
    /\ Alive /\ epc[e] = "slot"
    /\ \E i \in Joinable(e) : units[e][i].st = "panicked"
    /\ EndScheduler(e, "panicked")
    /\ UNCHANGED <<inputVars, storeVars, chan, closed, mainVars, handlerVars, envsent>>

\* main.rs:252  while let Some(Ok(_)) = set.join_next().await {}: the units
\* that returned (Ok, or Err of the send) are joined one after the other; when
\* a unit panicked join_next yields Some(Err(JoinError)), the loop ends and the
\* function returns while other units may still run
SchedDrainErr(e) ==
    /\ Alive /\ epc[e] = "drain"
    /\ \E i \in Joinable(e) : units[e][i].st = "panicked"
    /\ EndScheduler(e, "returned")
    /\ UNCHANGED <<inputVars, storeVars, chan, closed, mainVars, handlerVars, envsent>>

\* main.rs:252  every unit returned and was joined: join_next yields None
SchedDrainEnd(e) ==
    /\ Alive /\ epc[e] = "drain"
    /\ \A i \in DOMAIN units[e] : units[e][i].joined \/ units[e][i].st \in {"sent", "senderr"}
    /\ epc' = [epc EXCEPT ![e] = "returned"]
    /\ units' = [units EXCEPT ![e] = [i \in DOMAIN units[e] |-> [units[e][i] EXCEPT !.joined = TRUE]]]
    /\ memo' = [memo EXCEPT ![e] = DropMemo(memo[e])]
    /\ UNCHANGED eidx
    /\ UNCHANGED <<inputVars, storeVars, chan, closed, mainVars, handlerVars, envsent>>

\* The engine task was aborted (main.rs:106): it is cancelled before its
\* first poll or where it awaits (join_next at main.rs:237 and 252).
SchedCancelled(e) ==
    /\ Alive /\ eabort[e]
    /\ \/ epc[e] \in {"slot", "drain"}
       \/ epc[e] = "iter" /\ eidx[e] = 0
    /\ EndScheduler(e, "cancelled")
    /\ UNCHANGED <<inputVars, storeVars, chan, closed, mainVars, handlerVars, envsent>>

(***************************************************************************)
(* The units of work and the shared fetch they await (main.rs:243-249,     *)
(* 386-405).                                                               *)
(***************************************************************************)
\* The first poll of the Shared future by a unit awaiting it starts
\* get_artifact_hash: client.get(url).send()
FetchStart(e, u) ==
    /\ Alive /\ epc[e] \in {"iter", "slot", "drain"}
    /\ u \in DOMAIN memo[e] /\ memo[e][u].st = "lazy"
    /\ \E i \in DOMAIN units[e] : units[e][i].st = "running" /\ units[e][i].url = u
    /\ memo' = [memo EXCEPT ![e][u].st = "inflight", ![e][u].starts = @ + 1]
    /\ UNCHANGED <<epc, eidx, units>>
    /\ UNCHANGED <<inputVars, storeVars, chan, closed, mainVars, handlerVars, envsent>>

\* The fetch completes with the transport's response resp.
FetchFinish(e, u, resp) ==
    /\ Alive /\ epc[e] \in {"iter", "slot", "drain"}
    /\ u \in DOMAIN memo[e] /\ memo[e][u].st = "inflight"
    /\ resp \in transport[u]
    /\ memo' = [memo EXCEPT ![e][u].st = "done", ![e][u].resp = resp,
                            ![e][u].res = get_artifact_hash(u, resp)]
    /\ UNCHANGED <<epc, eidx, units>>
    /\ UNCHANGED <<inputVars, storeVars, chan, closed, mainVars, handlerVars, envsent>>

\* main.rs:244-248  let hash = hash.await.unwrap(); manifest_tx.send(Some(..))
UnitSend(e, i) ==
    /\ Alive /\ epc[e] \in {"iter", "slot", "drain"}
    /\ i \in DOMAIN units[e] /\ units[e][i].st = "running"
    /\ LET cell == memo[e][units[e][i].url]
       IN  /\ cell.st = "done" /\ cell.res.ok
           /\ IF closed
              THEN /\ units' = [units EXCEPT ![e][i].st = "senderr", ![e][i].got = cell.res]
                   /\ UNCHANGED chan
              ELSE /\ units' = [units EXCEPT ![e][i].st = "sent", ![e][i].got = cell.res]
                   /\ chan' = Append(chan, SomeMsg(KeyAt(e, i), units[e][i].url, cell.res.hash))
    /\ UNCHANGED <<epc, eidx, memo>>
    /\ UNCHANGED <<inputVars, storeVars, closed, mainVars, handlerVars, envsent>>

\* main.rs:244  hash.await.unwrap() on the Err of the fetch: the unit panics
UnitPanic(e, i) ==
    /\ Alive /\ epc[e] \in {"iter", "slot", "drain"}
    /\ i \in DOMAIN units[e] /\ units[e][i].st = "running"
    /\ LET cell == memo[e][units[e][i].url]
       IN  /\ cell.st = "done" /\ ~cell.res.ok
           /\ units' = [units EXCEPT ![e][i].st = "panicked", ![e][i].got = cell.res]
    /\ UNCHANGED <<epc, eidx, memo>>
    /\ UNCHANGED <<inputVars, storeVars, chan, closed, mainVars, handlerVars, envsent>>

(***************************************************************************)
(* The store task: update_manifest (main.rs:168-188) and flush_manifest    *)
(* (main.rs:191-195).                                                      *)
(***************************************************************************)
\* main.rs:192  File::create("./manifest.json"): the file is created or truncated
FileCreate ==
    /\ lastFlushed' = disk
    /\ disk' = FileTruncated

\* main.rs:193-194  the whole manifest is written (the BufWriter is flushed when dropped)
FileWriteLost(m) ==
    /\ disk' = disk
    /\ UNCHANGED lastFlushed

FileWrite(m) ==
    /\ disk' = Serialize(m)
    /\ UNCHANGED lastFlushed

\* main.rs:173-185, 192  recv() yields Some(Some(tuple)): the entry is inserted
\* if absent and flush_manifest begins: File::create
StoreApply ==
    /\ Alive /\ storepc = "recv"
    /\ chan # <<>> /\ Head(chan).some
    /\ LET msg == Head(chan)
       IN  /\ manifest' = OrInsert(manifest, msg.key, Details(msg.sha256, msg.url))
           /\ applied' = applied \cup {msg}
    /\ chan' = Tail(chan)
    /\ FileCreate
    /\ storepc' = "write"
    /\ UNCHANGED closed
    /\ UNCHANGED <<inputVars, schedVars, mainVars, handlerVars, envsent>>

\* main.rs:185, 193-194  flush_manifest: to_writer_pretty
StoreFlushWrite ==
    /\ Alive /\ storepc = "write"
    /\ FileWrite(manifest)
    /\ storepc' = "recv"
    /\ UNCHANGED <<manifest, applied, chan, closed>>
    /\ UNCHANGED <<inputVars, schedVars, mainVars, handlerVars, envsent>>

\* main.rs:173, 187  recv() yields Some(None): the loop ends, the manifest is
\* returned and manifest_rx is dropped (the channel is closed)
StoreStop ==
    /\ Alive /\ storepc = "recv"
    /\ chan # <<>> /\ ~Head(chan).some
    /\ chan' = Tail(chan)
    /\ storepc' = "returned"
    /\ closed' = TRUE
    /\ UNCHANGED <<manifest, disk, lastFlushed, applied>>
    /\ UNCHANGED <<inputVars, schedVars, mainVars, handlerVars, envsent>>

(***************************************************************************)
(* main (main.rs:110-141).                                                 *)
(***************************************************************************)
\* main.rs:111  set.lock().unwrap(): the guard is held until join_next has answered
MainLock ==
    /\ mainpc = "lock"
    /\ mainpc' = "joining"
    /\ UNCHANGED joinset
    /\ UNCHANGED <<inputVars, storeVars, chan, closed, schedVars, handlerVars, envsent>>

\* main.rs:111  join_next yields Some(Ok(_)): the engine task returned
MainJoinOkOnce(e) ==
    /\ mainpc = "joining"
    /\ e \in joinset /\ epc[e] = "returned"
    /\ joinset' = joinset \ {e}
    /\ mainpc' = "wrap"
    /\ UNCHANGED <<inputVars, storeVars, chan, closed, schedVars, handlerVars, envsent>>

MainJoinOk(e) ==
    /\ mainpc = "joining"
    /\ e \in joinset /\ epc[e] = "returned"
    /\ joinset' = joinset \ {e}
    /\ mainpc' = "lock"
    /\ UNCHANGED <<inputVars, storeVars, chan, closed, schedVars, handlerVars, envsent>>

\* main.rs:111  join_next yields Some(Err(_)): the engine task panicked or
\* was cancelled, and the loop ends
MainJoinErr(e) ==
    /\ mainpc = "joining"
    /\ e \in joinset /\ epc[e] \in {"panicked", "cancelled"}
    /\ joinset' = joinset \ {e}
    /\ mainpc' = "wrap"
    /\ UNCHANGED <<inputVars, storeVars, chan, closed, schedVars, handlerVars, envsent>>

\* main.rs:111  join_next yields None: the set is empty
MainJoinNone ==
    /\ mainpc = "joining"
    /\ joinset = {}
    /\ mainpc' = "wrap"
    /\ UNCHANGED joinset
    /\ UNCHANGED <<inputVars, storeVars, chan, closed, schedVars, handlerVars, envsent>>

\* main.rs:115  if ! manifest_tx.is_closed()
MainWrap ==
    /\ mainpc = "wrap"
    /\ mainpc' = IF closed THEN "await_store" ELSE "send_stop"
    /\ UNCHANGED joinset
    /\ UNCHANGED <<inputVars, storeVars, chan, closed, schedVars, handlerVars, envsent>>

\* main.rs:116  manifest_tx.send(None).expect(..)
MainSendStop ==
    /\ mainpc = "send_stop"
    /\ IF closed
       THEN /\ mainpc' = "panicked"
            /\ UNCHANGED chan
       ELSE /\ chan' = Append(chan, NoneMsg)
            /\ mainpc' = "await_store"
    /\ UNCHANGED joinset
    /\ UNCHANGED <<inputVars, storeVars, closed, schedVars, handlerVars, envsent>>

\* main.rs:117-120  closed().await; manifest_task.await; flush_manifest: File::create
MainFlushCreateNoAwait ==
    /\ mainpc = "await_store"
    /\ FileCreate
    /\ mainpc' = "flush_write"
    /\ UNCHANGED <<manifest, applied, storepc, joinset>>
    /\ UNCHANGED <<inputVars, chan, closed, schedVars, handlerVars, envsent>>

MainFlushCreate ==
    /\ mainpc = "await_store"
    /\ closed /\ storepc = "returned"
    /\ FileCreate
    /\ mainpc' = "flush_write"
    /\ UNCHANGED <<manifest, applied, storepc, joinset>>
    /\ UNCHANGED <<inputVars, chan, closed, schedVars, handlerVars, envsent>>

\* main.rs:120  flush_manifest: to_writer_pretty
MainFlushWrite ==
    /\ mainpc = "flush_write"
    /\ FileWrite(manifest)
    /\ mainpc' = "packages"
    /\ UNCHANGED <<manifest, applied, storepc, joinset>>
    /\ UNCHANGED <<inputVars, chan, closed, schedVars, handlerVars, envsent>>

\* main.rs:122-140  packages.json is written and main returns Ok(())
MainPackages ==
    /\ mainpc = "packages"
    /\ mainpc' = "done"
    /\ UNCHANGED joinset
    /\ UNCHANGED <<inputVars, storeVars, chan, closed, schedVars, handlerVars, envsent>>

(***************************************************************************)
(* The ctrl-c handler (main.rs:103-107), run on its own thread.            *)
(***************************************************************************)
\* The fetches in flight: <<engine, url>>.
InFlight ==
    UNION {{<<e, u>> : u \in {v \in DOMAIN memo[e] : memo[e][v].st = "inflight"}} : e \in Engines}

\* main.rs:104-105  an interrupt arrives: manifest_tx.send(None).expect(..)
Interrupt ==
    /\ Alive /\ handlerpc = "idle"
    /\ interrupts < MaxInterrupts
    /\ interrupts' = interrupts + 1
    /\ IF closed
       THEN /\ handlerpc' = "panicked"
            /\ UNCHANGED chan
       ELSE /\ chan' = Append(chan, NoneMsg)
            /\ handlerpc' = "aborting"
    /\ caught' = IF closed THEN {} ELSE InFlight
    /\ UNCHANGED eabort
    /\ UNCHANGED <<inputVars, storeVars, closed, schedVars, mainVars, envsent>>

\* main.rs:106  set.lock().unwrap().abort_all(): waits for the lock main
\* holds while it awaits join_next
HandlerAbort ==
    /\ Alive /\ handlerpc = "aborting"
    /\ mainpc # "joining"
    /\ eabort' = [e \in Engines |-> eabort[e] \/ e \in joinset]
    /\ handlerpc' = "idle"
    /\ caught' = {}
    /\ UNCHANGED interrupts
    /\ UNCHANGED <<inputVars, storeVars, chan, closed, schedVars, mainVars, envsent>>

(***************************************************************************)
(* The runs explored: the version lists (versions.json) and the keys of    *)
(* the manifest found at startup.                                          *)
(***************************************************************************)
PriorDetails(key) == Details(PriorHash(KeyUrl(key)), KeyUrl(key))

\* The manifest a file with these keys deserializes to.
LoadedManifest(keys) == [k \in keys |-> PriorDetails(k)]

AllKeys(ev) == UNION {{TupleKey(e, ev[e], i) : i \in 0..(NumTuples(ev[e]) - 1)} : e \in DOMAIN ev}

AllUrls(ev) == {KeyUrl(k) : k \in AllKeys(ev)}

\* Every server may answer anything.
AnyTransport(ev) == [u \in AllUrls(ev) |-> Responses]

Scenario(ev, missing, tr) == [versions |-> ev, loaded |-> AllKeys(ev) \ missing, transport |-> tr]

\* The servers of the URLs in `unreliable` may answer anything; the others
\* serve the complete artifact.
Unreliable(ev, unreliable) ==
    [u \in AllUrls(ev) |->
        IF u \in unreliable THEN Responses ELSE {r \in Responses : ResponseComplete(r)}]

\* The servers of the URLs in `flaky` serve the complete artifact or break off
\* while the body is streamed; the others serve the complete artifact.
Flaky(ev, flaky) ==
    [u \in AllUrls(ev) |->
        IF u \in flaky
        THEN {r \in Responses : r.send = "ok" /\ r.status = "ok"}
        ELSE {r \in Responses : ResponseComplete(r)}]

\* Only complete artifacts are served.
GoodTransport(ev) == [u \in AllUrls(ev) |-> {r \in Responses : ResponseComplete(r)}]

\* Two versions of Elasticsearch 6 (one URL per version) with five keys to
\* fetch, more than the scheduler runs at once.  The artifact of 6.0.0 is not
\* served (404); every other artifact is.
BigVersions == [e \in {"Elasticsearch"} |-> <<(<<6, 0, 0>>), (<<6, 1, 0>>)>>]

BigMissing ==
    {<<"Elasticsearch", <<6, 0, 0>>, "X86_64", "Linux">>,
     <<"Elasticsearch", <<6, 0, 0>>, "X86_64", "Darwin">>,
     <<"Elasticsearch", <<6, 1, 0>>, "X86_64", "Darwin">>,
     <<"Elasticsearch", <<6, 0, 0>>, "Aarch64", "Linux">>,
     <<"Elasticsearch", <<6, 0, 0>>, "Aarch64", "Darwin">>}

BigTransport(ev) ==
    [u \in AllUrls(ev) |->
        IF u = get_elasticsearch_url(<<6, 0, 0>>, "X86_64", "Linux")
        THEN {r \in Responses : r.send = "ok" /\ r.status = "err"}
        ELSE {r \in Responses : ResponseComplete(r)}]

\* The same, beside OpenSearch 1.0.0 with one key to fetch.
BigTwoVersions ==
    [e \in {"Elasticsearch", "OpenSearch"} |->
        IF e = "Elasticsearch" THEN BigVersions["Elasticsearch"] ELSE <<(<<1, 0, 0>>)>>]

BigTwoMissing == BigMissing \cup {<<"OpenSearch", <<1, 0, 0>>, "Aarch64", "Darwin">>}

\* OpenSearch 1.0.0 (one URL per arch): two keys of one URL and one key of
\* the other to fetch.
SharedVersions == [e \in {"OpenSearch"} |-> <<(<<1, 0, 0>>)>>]

SharedMissing ==
    {<<"OpenSearch", <<1, 0, 0>>, "X86_64", "Linux">>,
     <<"OpenSearch", <<1, 0, 0>>, "X86_64", "Darwin">>,
     <<"OpenSearch", <<1, 0, 0>>, "Aarch64", "Linux">>}

\* The two keys of the one URL alone.
SharedTwoMissing ==
    {<<"OpenSearch", <<1, 0, 0>>, "X86_64", "Linux">>,
     <<"OpenSearch", <<1, 0, 0>>, "X86_64", "Darwin">>}

\* Quickwit and Elasticsearch 7 (one URL per os), one key each to fetch.
PairVersions ==
    [e \in {"Quickwit", "Elasticsearch"} |->
        IF e = "Quickwit" THEN <<(<<0, 8, 0>>)>> ELSE <<(<<7, 17, 0>>)>>]

PairMissing ==
    {<<"Quickwit", <<0, 8, 0>>, "Aarch64", "Darwin">>,
     <<"Elasticsearch", <<7, 17, 0>>, "X86_64", "Darwin">>}

\* A version list that names one version twice: every key is enumerated twice.
DupVersions == [e \in {"Quickwit"} |-> <<(<<0, 8, 0>>), (<<0, 8, 0>>)>>]

DupMissing == {<<"Quickwit", <<0, 8, 0>>, "X86_64", "Linux">>}

\* No version at all was discovered.
NoVersions == [e \in {"OpenSearch"} |-> <<>>]

\* The runs of Spec.
Scenarios ==
    { Scenario(BigVersions, BigMissing, BigTransport(BigVersions)),
      Scenario(SharedVersions, SharedTwoMissing,
               Flaky(SharedVersions, {get_opensearch_url(<<1, 0, 0>>, "X86_64", "Linux")})),
      Scenario(PairVersions, PairMissing, GoodTransport(PairVersions)),
      Scenario(PairVersions, {}, AnyTransport(PairVersions)),
      Scenario(DupVersions, DupMissing, AnyTransport(DupVersions)),
      Scenario(NoVersions, {}, AnyTransport(NoVersions)) }

\* The runs of SpecPass.
ScenariosPass ==
    { Scenario(BigTwoVersions, BigTwoMissing, BigTransport(BigTwoVersions)),
      Scenario(SharedVersions, SharedMissing, AnyTransport(SharedVersions)),
      Scenario(PairVersions, PairMissing, AnyTransport(PairVersions)),
      Scenario(PairVersions, {}, AnyTransport(PairVersions)),
      Scenario(SharedVersions, AllKeys(SharedVersions), GoodTransport(SharedVersions)) }

\* The manifests and messages of SpecStore.
StoreKeys ==
    {<<"OpenSearch", <<1, 0, 0>>, "X86_64", "Linux">>,
     <<"OpenSearch", <<1, 0, 0>>, "Aarch64", "Linux">>}

StoreHashes == {Digest(KeyUrl(k), n) : k \in StoreKeys, n \in 0..1}

(***************************************************************************)
(* The state once main has spawned the engine tasks and the store task and *)
(* installed the ctrl-c handler (main.rs:77-108).                          *)
(***************************************************************************)
\* No function is studied on its own.
NoCall ==
    /\ raw_name = <<>>
    /\ version_string = None
    /\ url_keys = <<>>
    /\ derived_urls = <<>>
    /\ callpc = "none"

InitRun(scenarios) ==
    /\ NoCall
    /\ \E sc \in scenarios :
          /\ engine_versions = sc.versions
          /\ snapshot = LoadedManifest(sc.loaded)
          /\ transport = sc.transport
          /\ disk \in {Serialize(LoadedManifest(sc.loaded))}
                        \cup (IF sc.loaded = {} THEN {FileAbsent} ELSE {})
    /\ manifest = snapshot
    /\ lastFlushed = disk
    /\ applied = {}
    /\ chan = <<>>
    /\ closed = FALSE
    /\ storepc = "recv"
    /\ mainpc = "lock"
    /\ joinset = DOMAIN engine_versions
    /\ epc = [e \in DOMAIN engine_versions |-> "iter"]
    /\ eidx = [e \in DOMAIN engine_versions |-> 0]
    /\ units = [e \in DOMAIN engine_versions |-> EmptyUnits]
    /\ memo = [e \in DOMAIN engine_versions |-> EmptyMemo]
    /\ eabort = [e \in DOMAIN engine_versions |-> FALSE]
    /\ handlerpc = "idle"
    /\ interrupts = 0
    /\ caught = {}
    /\ envsent = 0

Init == InitRun(Scenarios)

InitPass == InitRun(ScenariosPass)

\* The store task alone, started on any manifest over StoreKeys.
InitStore ==
    /\ NoCall
    /\ engine_versions = [e \in {} |-> <<>>]
    /\ transport = [u \in {} |-> {}]
    /\ \E keys \in SUBSET StoreKeys :
          /\ snapshot = LoadedManifest(keys)
          /\ disk \in {Serialize(LoadedManifest(keys))}
                        \cup (IF keys = {} THEN {FileAbsent} ELSE {})
    /\ manifest = snapshot
    /\ lastFlushed = disk
    /\ applied = {}
    /\ chan = <<>>
    /\ closed = FALSE
    /\ storepc = "recv"
    /\ mainpc = "lock"
    /\ joinset = {}
    /\ epc = [e \in {} |-> "iter"]
    /\ eidx = [e \in {} |-> 0]
    /\ units = [e \in {} |-> EmptyUnits]
    /\ memo = [e \in {} |-> EmptyMemo]
    /\ eabort = [e \in {} |-> FALSE]
    /\ handlerpc = "idle"
    /\ interrupts = 0
    /\ caught = {}
    /\ envsent = 0

\* Any holder of manifest_tx sends an update (main.rs:245-246) ...
EnvSend(key, sha256) ==
    /\ envsent < MaxSends /\ ~closed
    /\ envsent' = envsent + 1
    /\ chan' = Append(chan, SomeMsg(key, KeyUrl(key), sha256))
    /\ UNCHANGED closed
    /\ UNCHANGED <<inputVars, storeVars, schedVars, mainVars, handlerVars>>

\* ... or the stop sentinel (main.rs:105, 116).
EnvStop ==
    /\ envsent < MaxSends /\ ~closed
    /\ envsent' = envsent + 1
    /\ chan' = Append(chan, NoneMsg)
    /\ UNCHANGED closed
    /\ UNCHANGED <<inputVars, storeVars, schedVars, mainVars, handlerVars>>

Urls(e) == {KeyUrl(k) : k \in CrossProduct(e)}

Pass ==
    \/ \E e \in Engines : SchedEnumDone(e)
    \/ \E e \in Engines : SchedSkip(e)
    \/ \E e \in Engines : SchedClosedReturn(e)
    \/ \E e \in Engines : SchedIssue(e)
    \/ \E e \in Engines : SchedJoinSlot(e)
    \/ \E e \in Engines : SchedJoinSlotPanic(e)
    \/ \E e \in Engines : SchedDrainErr(e)
    \/ \E e \in Engines : SchedDrainEnd(e)
    \/ \E e \in Engines : \E u \in Urls(e) : FetchStart(e, u)
    \/ \E e \in Engines : \E u \in Urls(e) : \E resp \in Responses : FetchFinish(e, u, resp)
    \/ \E e \in Engines : \E i \in DOMAIN units[e] : UnitSend(e, i)
    \/ \E e \in Engines : \E i \in DOMAIN units[e] : UnitPanic(e, i)
    \/ StoreApply
    \/ StoreFlushWrite
    \/ StoreStop
    \/ MainLock
    \/ \E e \in Engines : MainJoinOk(e)
    \/ \E e \in Engines : MainJoinErr(e)
    \/ MainJoinNone
    \/ MainWrap
    \/ MainSendStop
    \/ MainFlushCreate
    \/ MainFlushWrite
    \/ MainPackages

\* A run that may be interrupted.
Next ==
    \/ Pass
    \/ \E e \in Engines : SchedCancelled(e)
    \/ Interrupt
    \/ HandlerAbort

Spec == Init /\ [][Next]_vars

\* A run that is not interrupted.
SpecPass == InitPass /\ [][Pass]_vars

\* The store task fed by any sender.
NextStore ==
    \/ StoreApply
    \/ StoreFlushWrite
    \/ StoreStop
    \/ \E key \in StoreKeys : \E sha256 \in StoreHashes : EnvSend(key, sha256)
    \/ EnvStop

SpecStore == InitStore /\ [][NextStore]_vars

(***************************************************************************)
(* extract_version_string on its own: called once on a raw name.           *)
(***************************************************************************)
\* No run is under way.
NoRun ==
    /\ engine_versions = [e \in {} |-> <<>>]
    /\ transport = [u \in {} |-> {}]
    /\ snapshot = EmptyManifest
    /\ manifest = EmptyManifest
    /\ disk = FileAbsent
    /\ lastFlushed = FileAbsent
    /\ applied = {}
    /\ chan = <<>>
    /\ closed = FALSE
    /\ storepc = "recv"
    /\ mainpc = "lock"
    /\ joinset = {}
    /\ epc = [e \in {} |-> "iter"]
    /\ eidx = [e \in {} |-> 0]
    /\ units = [e \in {} |-> EmptyUnits]
    /\ memo = [e \in {} |-> EmptyMemo]
    /\ eabort = [e \in {} |-> FALSE]
    /\ handlerpc = "idle"
    /\ interrupts = 0
    /\ caught = {}
    /\ envsent = 0

runVars ==
    <<engine_versions, snapshot, transport, storeVars, chan, closed, mainVars, schedVars,
      handlerVars, envsent>>

\* The characters of the raw names explored exhaustively: digits, the dot,
\* the dash and a lower-case letter.
RawAlphabet == {"1", "2", ".", "-", "a"}

\* Tag and release names as the version source gives them (main.rs:496-497
\* and the release names of the three engines).
RawExamples ==
    { <<"v", "1", ".", "2", ".", "3">>,
      <<"s", "o", "m", "e", "-", "b", "e", "t", "a", "-", "p", "r", "e", "r", "e", "l", "e",
        "a", "s", "e", "-", "1">>,
      <<"v", "7", ".", "1", "7", ".", "1", "0">>,
      <<"v", "1", "0", ".", "2", ".", "3">>,
      <<"O", "p", "e", "n", "S", "e", "a", "r", "c", "h", " ", "2", ".", "4", ".", "0">>,
      <<"1", ".", "0", ".", "0", ".", "B", "e", "t", "a", "1">>,
      <<"v", "5", ".", "0", ".", "0", ".", "R", "C", "1">>,
      <<"2", ".", "0", ".", "0", "-", "r", "c", "1">>,
      <<"1", ".", "2", ".", "3", " ", "(", "w", "a", "s", " ", "1", ".", "2", ".", "2", ")">> }

RawNames == UNION {[1..n -> RawAlphabet] : n \in 0..MaxRawLen} \cup RawExamples

InitExtract ==
    /\ NoRun
    /\ raw_name \in RawNames
    /\ version_string = None
    /\ url_keys = <<>>
    /\ derived_urls = <<>>
    /\ callpc = "call"

\* main.rs:442, 474  extract_version_string(&name)
Extract ==
    /\ callpc = "call"
    /\ version_string' = extract_version_string(raw_name)
    /\ callpc' = "returned"
    /\ UNCHANGED <<raw_name, url_keys, derived_urls>>
    /\ UNCHANGED runVars

SpecExtract == InitExtract /\ [][Extract]_vars

(***************************************************************************)
(* get_url on its own: called on two keys.                                 *)
(***************************************************************************)
UrlVersions ==
    {<<major, minor, 0>> : major \in 0..MaxMajor, minor \in 0..MaxMinor}
    \cup {<<major, 0, 1>> : major \in 0..MaxMajor}

UrlKeys == Engine \X UrlVersions \X Arch \X OperatingSystem

InitUrl ==
    /\ NoRun
    /\ raw_name = <<>>
    /\ version_string = None
    /\ url_keys \in UrlKeys \X UrlKeys
    /\ derived_urls = <<>>
    /\ callpc = "call"

\* main.rs:225  get_url(&engine, &version, &arch, &system), for each key
DeriveUrls ==
    /\ callpc = "call"
    /\ derived_urls' = <<KeyUrl(url_keys[1]), KeyUrl(url_keys[2])>>
    /\ callpc' = "returned"
    /\ UNCHANGED <<raw_name, version_string, url_keys>>
    /\ UNCHANGED runVars

SpecUrl == InitUrl /\ [][DeriveUrls]_vars

(***************************************************************************)
(* Notions the properties are stated with.                                 *)
(***************************************************************************)
\* The units of scheduler e whose fetch-and-hash has started and not finished.
Running(e) == {i \in DOMAIN units[e] : units[e][i].st = "running"}

\* The units of e that have had the result of their fetch.
Finished(e) == {i \in DOMAIN units[e] : units[e][i].st \in {"sent", "senderr", "panicked"}}

\* The keys for which scheduler e has spawned a unit of work.
IssuedKeys(e) == {KeyAt(e, i) : i \in DOMAIN units[e]}

\* The update messages still on the channel.
Queued == {chan[n] : n \in DOMAIN chan}

\* The fetch of u by scheduler e has completed and has failed: the request, the
\* status or the streaming of the body.
FetchFailed(e, u) ==
    /\ u \in DOMAIN memo[e]
    /\ memo[e][u].st = "done"
    /\ ~ResponseComplete(memo[e][u].resp)

\* No fetch of the run has failed.
NoFetchFailure == \A e \in Engines : \A u \in DOMAIN memo[e] : ~FetchFailed(e, u)

\* Every key of every engine's cross product is in the manifest loaded at startup.
AllLoaded == \A e \in Engines : CrossProduct(e) \subseteq DOMAIN snapshot

(***************************************************************************)
(* C1.  Insert-if-absent: a key that is in the manifest (loaded at startup *)
(* or applied by update_manifest) stays in it with the same details in     *)
(* every step, whatever update messages arrive for it; the set of keys     *)
(* only grows.                                                             *)
(***************************************************************************)
C1_InsertIfAbsent ==
    [][\A k \in DOMAIN manifest : k \in DOMAIN manifest' /\ manifest'[k] = manifest[k]]_vars

\* An update for a key already in the manifest, carrying other details, has
\* been received, and another for a key that was absent.
C1_Witness ==
    /\ \E m \in applied :
          /\ m.key \in DOMAIN snapshot
          /\ Details(m.sha256, m.url) # snapshot[m.key]
    /\ \E m \in applied : m.key \notin DOMAIN snapshot
    /\ \E m1 \in applied : \E m2 \in applied : m1.key = m2.key /\ m1.sha256 # m2.sha256

(***************************************************************************)
(* C2.  Within one engine's pass at most one network fetch is started for  *)
(* each URL, however many keys derive it, and all the units of work of one *)
(* URL that get a result get the same one.                                 *)
(***************************************************************************)
C2_OneFetchPerUrl ==
    \A e \in Engines :
        /\ \A u \in DOMAIN memo[e] : memo[e][u].starts <= 1
        /\ \A i \in Finished(e) : \A j \in Finished(e) :
              units[e][i].url = units[e][j].url => units[e][i].got = units[e][j].got
        /\ \A i \in Finished(e) :
              /\ units[e][i].url \in DOMAIN memo[e]
              /\ memo[e][units[e][i].url].st = "done"
              /\ units[e][i].got = memo[e][units[e][i].url].res

\* Two units of work of two keys with the same URL have both had the result
\* of its one fetch.
C2_Witness ==
    \E e \in Engines : \E i \in Finished(e) : \E j \in Finished(e) :
        /\ i # j
        /\ KeyAt(e, i) # KeyAt(e, j)
        /\ units[e][i].url = units[e][j].url
        /\ memo[e][units[e][i].url].starts = 1

(***************************************************************************)
(* C3.  For every engine, in every reachable state, at most                *)
(* concurrency = 4 units of work are started and not finished (and so at   *)
(* most 4 fetches are in flight).                                          *)
(***************************************************************************)
C3_ConcurrencyBound ==
    \A e \in Engines :
        /\ Cardinality(Running(e)) <= concurrency
        /\ Cardinality({u \in DOMAIN memo[e] : memo[e][u].st = "inflight"}) <= concurrency

\* Four units are running and the scheduler waits for a slot for a fifth.
C3_Witness ==
    \E e \in Engines :
        /\ Cardinality(Running(e)) = concurrency
        /\ epc[e] = "slot"

(***************************************************************************)
(* C4.  Resumability: no unit of work is spawned and no update is sent for *)
(* a key of the manifest loaded at startup; when every key of the cross    *)
(* product is loaded, the run starts no fetch at all.                      *)
(***************************************************************************)
C4_Resumability ==
    /\ \A e \in Engines : IssuedKeys(e) \cap DOMAIN snapshot = {}
    /\ \A m \in Queued \cup applied : m.some => m.key \notin DOMAIN snapshot
    /\ AllLoaded =>
          \A e \in Engines : DOMAIN memo[e] = {} /\ DOMAIN units[e] = {}

\* A run on a manifest that has every key of two engines has ended, and a
\* scheduler has gone past loaded keys.
C4_Witness ==
    /\ AllLoaded
    /\ mainpc = "done"
    /\ \E e \in Engines : CrossProduct(e) # {} /\ eidx[e] = NumTuples(engine_versions[e])

\* A scheduler has gone past a loaded key and has issued a later one.
C4_WitnessSkipThenIssue ==
    \E e \in Engines : \E i \in DOMAIN units[e] : \E j \in 0..(i - 1) :
        KeyAt(e, j) \in DOMAIN snapshot

(***************************************************************************)
(* C5.  End to end: when a run without fetch failure (and, in SpecPass,    *)
(* without interrupt) has ended, units of work were issued for exactly the *)
(* keys of the cross product missing from the loaded manifest, every       *)
(* update sent was applied before the store stopped, and the manifest, in  *)
(* memory and on disk, has every key of every cross product, the loaded    *)
(* entries unchanged and the new ones with the derived URL and its hash.   *)
(***************************************************************************)
C5_EndToEnd ==
    (mainpc = "done" /\ NoFetchFailure) =>
        /\ \A e \in Engines : IssuedKeys(e) = CrossProduct(e) \ DOMAIN snapshot
        /\ \A e \in Engines : \A i \in DOMAIN units[e] :
              /\ units[e][i].st = "sent"
              /\ SomeMsg(KeyAt(e, i), units[e][i].url, units[e][i].got.hash) \in applied
        /\ \A m \in Queued : ~m.some
        /\ \A e \in Engines : CrossProduct(e) \subseteq DOMAIN manifest
        /\ \A k \in DOMAIN snapshot : manifest[k] = snapshot[k]
        /\ \A k \in DOMAIN manifest \ DOMAIN snapshot :
              manifest[k] = Details(TrueHash(KeyUrl(k)), KeyUrl(k))
        /\ disk = Serialize(manifest)

\* Such a run has ended: it started from a manifest with entries and added
\* entries of two engines.
C5_Witness ==
    /\ mainpc = "done" /\ NoFetchFailure
    /\ DOMAIN snapshot # {}
    /\ \A e \in Engines : units[e] # EmptyUnits
    /\ Cardinality(Engines) = 2

(***************************************************************************)
(* C6.  Flush after every apply: whenever update_manifest waits for its    *)
(* next message, manifest.json holds exactly the manifest in memory, that  *)
(* is the loaded entries and the entries applied so far.                   *)
(***************************************************************************)
C6_FlushAfterApply ==
    storepc = "recv" =>
        /\ initialize_manifest(disk).ok
        /\ initialize_manifest(disk).manifest = manifest
        /\ DOMAIN manifest = DOMAIN snapshot \cup {m.key : m \in applied}

\* The store waits for its third message, two entries being applied.
C6_Witness ==
    /\ storepc = "recv"
    /\ Cardinality(DOMAIN manifest \ DOMAIN snapshot) = 2
    /\ chan # <<>>

(***************************************************************************)
(* C7.  Partial writes are never observable: at every point in time, also  *)
(* while flush_manifest runs, manifest.json can be loaded and has every    *)
(* entry it had before the flush began.                                    *)
(***************************************************************************)
C7_NoPartialWrite ==
    /\ initialize_manifest(disk).ok
    /\ \A k \in DOMAIN initialize_manifest(lastFlushed).manifest :
          /\ k \in DOMAIN initialize_manifest(disk).manifest
          /\ initialize_manifest(disk).manifest[k] = initialize_manifest(lastFlushed).manifest[k]

(***************************************************************************)
(* C8.  A failed fetch writes no entry: when the fetch of a URL has failed *)
(* (request, status, or network error while the body is streamed), no      *)
(* entry of a key deriving that URL is added to the manifest in this run.  *)
(***************************************************************************)
C8_FailedFetchWritesNoEntry ==
    \A e \in Engines : \A u \in DOMAIN memo[e] :
        FetchFailed(e, u) =>
            \A k \in DOMAIN manifest \ DOMAIN snapshot : KeyUrl(k) # u

(***************************************************************************)
(* C9.  Failure containment within an engine: a failed fetch neither stops *)
(* the scheduler's enumeration nor aborts its other units of work: while   *)
(* the update channel is open no scheduler has panicked and no unit of     *)
(* work has been aborted.                                                  *)
(***************************************************************************)
C9_FailureContained ==
    ~closed =>
        \A e \in Engines :
            /\ epc[e] # "panicked"
            /\ \A i \in DOMAIN units[e] : units[e][i].st # "aborted"

(***************************************************************************)
(* C10.  A failed fetch does not abort the run: when main has told the     *)
(* store to stop, the pass of every engine has ended, and when the run has *)
(* ended every update a unit of work sent has been applied.                *)
(***************************************************************************)
C10_RunNotAborted ==
    /\ mainpc \in {"await_store", "flush_write", "packages", "done"} =>
          \A e \in Engines : epc[e] \in {"returned", "panicked"}
    /\ mainpc = "done" =>
          \A e \in Engines : \A i \in DOMAIN units[e] :
              units[e][i].st = "sent" =>
                  SomeMsg(KeyAt(e, i), units[e][i].url, units[e][i].got.hash) \in applied

C12_NoSpawnAfterCancel ==
    [][(interrupts > 0 /\ closed) =>
          \A e \in Engines : DOMAIN units'[e] = DOMAIN units[e]]_vars

(***************************************************************************)
(* C13.  The run always reaches its final step: in every state of a run,   *)
(* interrupted or not, either main has run the package-list transformation *)
(* after the final flush and returned, or some task can still take a step  *)
(* (the run never stops short of the final step).                          *)
(***************************************************************************)
C13_ReachesFinalStep == mainpc = "done" \/ ENABLED Next

(***************************************************************************)
(* C14.  Enumeration order.  The rank of a key's version is the place of   *)
(* its first occurrence in the engine's version list; the rank of its      *)
(* variant is the place of (arch, os) in the order of Arch::iter() and     *)
(* OperatingSystem::iter().                                                *)
(***************************************************************************)
PosIn(seq, x) == CHOOSE n \in DOMAIN seq : seq[n] = x /\ \A m \in 1..(n - 1) : seq[m] # x

VersionRank(e, key) == PosIn(engine_versions[e], key[2])

VariantRank(key) ==
    (PosIn(ArchIter, key[3]) - 1) * Len(OperatingSystemIter) + PosIn(OperatingSystemIter, key[4])

\* The keys of engine e that are to be fetched and have no unit of work yet.
NotYetIssued(e) == (CrossProduct(e) \ DOMAIN snapshot) \ IssuedKeys(e)

\* C14 as claimed: version is the outer loop; when a unit of work has been
\* issued for a key, every key to fetch of an earlier version, whatever its
\* (arch, os) variant, has been issued before.
C14_VersionOuter ==
    \A e \in Engines : \A i \in DOMAIN units[e] : \A k \in NotYetIssued(e) :
        ~(VersionRank(e, k) < VersionRank(e, KeyAt(e, i)))

\* C14 as amended: (arch, os) is the outer loop, arch outermost, and version
\* the innermost; when a unit of work has been issued for a key, every key to
\* fetch of an earlier variant, whatever its version, and every key of the
\* same variant and an earlier version, has been issued before.
C14_VariantOuter ==
    \A e \in Engines : \A i \in DOMAIN units[e] : \A k \in NotYetIssued(e) :
        /\ ~(VariantRank(k) < VariantRank(KeyAt(e, i)))
        /\ VariantRank(k) = VariantRank(KeyAt(e, i)) =>
              ~(VersionRank(e, k) < VersionRank(e, KeyAt(e, i)))

\* A unit of work of the second version has been issued while keys of the
\* first version, of later variants, have not been visited yet.
C14_Witness ==
    \E e \in Engines : \E i \in DOMAIN units[e] : \E k \in NotYetIssued(e) :
        /\ Len(engine_versions[e]) = 2
        /\ VersionRank(e, KeyAt(e, i)) = 2
        /\ VersionRank(e, k) = 1
        /\ VariantRank(k) > VariantRank(KeyAt(e, i))
        /\ eidx[e] = i + 1

(***************************************************************************)
(* C15.  Version extraction: when the raw name, its pre-release markers    *)
(* normalized, embeds a MAJOR.MINOR.PATCH[-prerelease] substring,          *)
(* extract_version_string returns the first (leftmost) one, with its whole *)
(* major number; when it embeds none, it returns none.                     *)
(***************************************************************************)
\* The places where a version is embedded in str.
EmbeddedAt(str) == {i \in 1..Len(str) : VersionEnd(str, i) # 0}

\* The first embedded version of str, if any.
FirstEmbedded(str) ==
    IF EmbeddedAt(str) = {} THEN None
    ELSE LET first == CHOOSE i \in EmbeddedAt(str) : \A j \in EmbeddedAt(str) : i <= j
         IN  Some(SubSeq(str, first, VersionEnd(str, first) - 1))

C15_ExtractsFirstVersion ==
    callpc = "returned" => version_string = FirstEmbedded(NormalizePrerelease(raw_name))

(***************************************************************************)
(* C16.  On interrupt, in-flight work is aborted rather than awaited: no   *)
(* fetch that was in flight when the interrupt arrived completes while the *)
(* handler, having sent the stop sentinel, waits to abort the engine tasks *)
(* for the lock main holds while it awaits join_next.                      *)
(***************************************************************************)
C16_AbortNotBlocked ==
    [][\A e \in Engines : \A u \in DOMAIN memo[e] :
          (/\ handlerpc = "aborting" /\ mainpc = "joining"
           /\ memo[e][u].st = "inflight" /\ <<e, u>> \in caught)
          => memo'[e][u].st # "done"]_vars

(***************************************************************************)
(* C17.  Single serialized update path: in every step of every run, also   *)
(* an interrupted one, the manifest changes only by update_manifest        *)
(* taking one message while it is not flushing; manifest.json changes only *)
(* by a step of update_manifest while it runs, or by main's final flush    *)
(* once update_manifest has returned; and the flush of update_manifest and *)
(* the flush of main are never under way together.                         *)
(***************************************************************************)
C17_SerializedUpdates ==
    [][/\ manifest' # manifest =>
             /\ storepc = "recv" /\ storepc' = "write"
             /\ chan # <<>> /\ chan' = Tail(chan)
             /\ mainpc # "flush_write"
       /\ disk' # disk =>
             \/ /\ storepc \in {"recv", "write"} /\ storepc' # storepc
                /\ mainpc \notin {"flush_write", "packages", "done"}
             \/ /\ storepc = "returned" /\ storepc' = "returned"
                /\ mainpc \in {"await_store", "flush_write"} /\ mainpc' # mainpc
       /\ ~(storepc' = "write" /\ mainpc' = "flush_write")]_vars

\* main's final flush is under way in an interrupted run in which
\* update_manifest has applied updates and has returned.
C17_Witness ==
    /\ mainpc = "flush_write"
    /\ storepc = "returned"
    /\ interrupts > 0
    /\ DOMAIN manifest # DOMAIN snapshot

(***************************************************************************)
(* C18.  URL derivation: for any two keys, equal keys derive equal URLs;   *)
(* keys of different engines or versions derive different URLs; and among  *)
(* the keys of one engine and version the URLs are distinct per (arch, os) *)
(* for Quickwit and Elasticsearch major >= 8, depend on os only for        *)
(* Elasticsearch major 7, are all the same for Elasticsearch major <= 6,   *)
(* and depend on arch only for OpenSearch.                                 *)
(***************************************************************************)
C18_UrlDerivation ==
    callpc = "returned" =>
        LET k1 == url_keys[1]
            k2 == url_keys[2]
            same == derived_urls[1] = derived_urls[2]
            major == VersionMajor(k1[2])
        IN  /\ k1 = k2 => same
            /\ (k1[1] # k2[1] \/ k1[2] # k2[2]) => ~same
            /\ (k1[1] = k2[1] /\ k1[2] = k2[2]) =>
                  CASE k1[1] = "Quickwit" -> (same <=> (k1[3] = k2[3] /\ k1[4] = k2[4]))
                    [] k1[1] = "OpenSearch" -> (same <=> k1[3] = k2[3])
                    [] k1[1] = "Elasticsearch" /\ major >= 8 ->
                          (same <=> (k1[3] = k2[3] /\ k1[4] = k2[4]))
                    [] k1[1] = "Elasticsearch" /\ major = 7 -> (same <=> k1[4] = k2[4])
                    [] k1[1] = "Elasticsearch" /\ major <= 6 -> same

\* The URLs of the linux and the darwin key of one OpenSearch version and
\* arch have been derived, and are one URL.
C18_Witness ==
    /\ callpc = "returned"
    /\ url_keys[1][1] = "OpenSearch" /\ url_keys[2][1] = "OpenSearch"
    /\ url_keys[1][2] = url_keys[2][2]
    /\ url_keys[1][3] = url_keys[2][3]
    /\ url_keys[1][4] = "Linux" /\ url_keys[2][4] = "Darwin"
    /\ derived_urls[1] = derived_urls[2]

(***************************************************************************)
(* C19.  The skip decision taken on the snapshot agrees with the live      *)
(* manifest: for an engine whose version list repeats no version, the key  *)
(* the scheduler is examining is in the snapshot exactly when it is in the *)
(* manifest of update_manifest, and at most one update is ever sent for a  *)
(* ManifestKey.                                                            *)
(***************************************************************************)
NoRepeatedVersion(e) ==
    \A a \in DOMAIN engine_versions[e] : \A b \in DOMAIN engine_versions[e] :
        a # b => engine_versions[e][a] # engine_versions[e][b]

\* The units of work of e that have sent an update for key.
SentFor(e, key) == {i \in DOMAIN units[e] : KeyAt(e, i) = key /\ units[e][i].st = "sent"}

C19_SnapshotAgrees ==
    \A e \in Engines :
        NoRepeatedVersion(e) =>
            /\ (epc[e] \in {"iter", "slot"} /\ eidx[e] < NumTuples(engine_versions[e])) =>
                  (ManifestHas(snapshot, KeyAt(e, eidx[e]))
                      <=> ManifestHas(manifest, KeyAt(e, eidx[e])))
            /\ \A key \in CrossProduct(e) :
                  /\ Cardinality(SentFor(e, key)) <= 1
                  /\ Cardinality({n \in DOMAIN chan : chan[n].some /\ chan[n].key = key}) <= 1
                  /\ \A m1 \in Queued \cup applied : \A m2 \in Queued \cup applied :
                        (m1.some /\ m2.some /\ m1.key = key /\ m2.key = key) => m1 = m2

\* The live manifest has grown beyond the snapshot, by a key of the engine,
\* while its scheduler examines a later key, which is in neither.
C19_Witness ==
    \E e \in Engines :
        /\ NoRepeatedVersion(e)
        /\ epc[e] = "iter" /\ eidx[e] < NumTuples(engine_versions[e])
        /\ \E k \in DOMAIN manifest \ DOMAIN snapshot : k[1] = e
        /\ ~ManifestHas(manifest, KeyAt(e, eidx[e]))

\* With a repeated version the key is examined again after its update was
\* applied: the snapshot lacks it and the live manifest has it.
C19_RepeatedVersionDisagrees ==
    \E e \in Engines :
        /\ ~NoRepeatedVersion(e)
        /\ epc[e] = "iter" /\ eidx[e] < NumTuples(engine_versions[e])
        /\ ~ManifestHas(snapshot, KeyAt(e, eidx[e]))
        /\ ManifestHas(manifest, KeyAt(e, eidx[e]))

(***************************************************************************)
(* C20.  The stop-sentinel sends never fail: neither the ctrl-c handler    *)
(* nor main ever finds the receiver dropped when it sends None, so neither *)
(* `expect` fires, whenever the interrupt arrives.                         *)
(***************************************************************************)
C20_SentinelSendsSucceed == handlerpc # "panicked" /\ mainpc # "panicked"

====
